---- MODULE Spec2Model ----
(***************************************************************************)
(* A model of src/command.ts (TakumiPro Command.ts 1.2.0): the argument    *)
(* validators, the Command validation chain, the CommandCollector, the     *)
(* per-guild prefix cache, and the dispatch of a command with its error    *)
(* boundary.                                                               *)
(*                                                                         *)
(* A JavaScript string is a sequence of one-character strings, so that     *)
(* trim, split, toLowerCase and the regular expressions are computed, not  *)
(* assumed.                                                                *)
(***************************************************************************)
EXTENDS Integers, Sequences, FiniteSets, TLC

(***************************************************************************)
(* Bounds of the model.                                                    *)
(***************************************************************************)
\* longest argument text handed to Command.validate
MaxLen == 3
\* most aliases the Commands of the registry specification hold together
MaxAlias == 2
\* most getPrefix and setPrefix calls of the prefix specification
MaxCalls == 3

(***************************************************************************)
(* Strings.                                                                *)
(***************************************************************************)
\* the characters String.prototype.trim and the class \s treat as whitespace
WhiteSpace == {" ", "\t"}

Digits == {"0", "3"}

DigitValue(c) == CASE c = "0" -> 0 [] c = "3" -> 3 [] OTHER -> 0

\* String.prototype.toLowerCase / toUpperCase, per character
LowerChar(c) == CASE c = "A" -> "a" [] c = "B" -> "b" [] OTHER -> c
UpperChar(c) == CASE c = "a" -> "A" [] c = "b" -> "B" [] OTHER -> c

toLowerCase(s) == [i \in 1..Len(s) |-> LowerChar(s[i])]
toUpperCase(s) == [i \in 1..Len(s) |-> UpperChar(s[i])]

RECURSIVE trimStart(_)
trimStart(s) ==
  IF s # <<>> /\ Head(s) \in WhiteSpace THEN trimStart(Tail(s)) ELSE s

RECURSIVE trimEnd(_)
trimEnd(s) ==
  IF s # <<>> /\ s[Len(s)] \in WhiteSpace
  THEN trimEnd(SubSeq(s, 1, Len(s) - 1)) ELSE s

trim(s) == trimEnd(trimStart(s))

\* /\s/.test(s)
HasWhiteSpace(s) == \E i \in 1..Len(s) : s[i] \in WhiteSpace

\* index of the first " " of s, or 0
RECURSIVE IndexOfSpaceFrom(_, _)
IndexOfSpaceFrom(s, i) ==
  IF i > Len(s) THEN 0
  ELSE IF s[i] = " " THEN i ELSE IndexOfSpaceFrom(s, i + 1)

\* args.split(" ").shift(): the text before the first " "
SplitShift(s) ==
  LET k == IndexOfSpaceFrom(s, 1)
  IN  IF k = 0 THEN s ELSE SubSeq(s, 1, k - 1)

\* the rest of args.split(" ") joined by " ": the text after the first " "
SplitRestJoin(s) ==
  LET k == IndexOfSpaceFrom(s, 1)
  IN  IF k = 0 THEN <<>> ELSE SubSeq(s, k + 1, Len(s))

startsWith(s, p) == Len(p) <= Len(s) /\ SubSeq(s, 1, Len(p)) = p

\* all strings over alphabet A of length at most n
RECURSIVE StringsUpTo(_, _)
StringsUpTo(A, n) ==
  IF n = 0 THEN {<<>>}
  ELSE LET S == StringsUpTo(A, n - 1)
       IN  S \cup {Append(s, c) : s \in {t \in S : Len(t) = n - 1}, c \in A}

(***************************************************************************)
(* Values of a parsed argument set.  A number is mant / 10^scale, with     *)
(* trailing fraction zeros dropped, so that "3.0" and "3" are one value.   *)
(***************************************************************************)
StrVal(s) == [kind |-> "string", s |-> s, mant |-> 0, scale |-> 0]
NumVal(m, e) == [kind |-> "number", s |-> <<>>, mant |-> m, scale |-> e]
Undefined == [kind |-> "undefined", s |-> <<>>, mant |-> 0, scale |-> 0]

RECURSIVE Pow10(_)
Pow10(e) == IF e = 0 THEN 1 ELSE 10 * Pow10(e - 1)

RECURSIVE Normal(_, _)
Normal(m, e) ==
  IF e > 0 /\ m % 10 = 0 THEN Normal(m \div 10, e - 1) ELSE NumVal(m, e)

\* an integer as a number value
IntVal(i) == NumVal(i, 0)

\* a < b and a <= b on number values
NumLess(a, b) == a.mant * Pow10(b.scale) < b.mant * Pow10(a.scale)
NumLeq(a, b) == a.mant * Pow10(b.scale) <= b.mant * Pow10(a.scale)

\* num % 1 !== 0
HasFraction(a) == a.mant % Pow10(a.scale) # 0

RECURSIVE DigitsValue(_)
DigitsValue(s) ==
  IF s = <<>> THEN 0
  ELSE 10 * DigitsValue(SubSeq(s, 1, Len(s) - 1)) + DigitValue(s[Len(s)])

AllDigits(s) == s # <<>> /\ \A i \in 1..Len(s) : s[i] \in Digits

IndexOfDot(s) ==
  IF \E i \in 1..Len(s) : s[i] = "."
  THEN CHOOSE i \in 1..Len(s) : s[i] = "." /\ \A j \in 1..(i - 1) : s[j] # "."
  ELSE 0

\* /^-?\d+(\.\d+)?$/.test(arg)
IsNumberFormat(arg) ==
  LET body == IF arg # <<>> /\ Head(arg) = "-" THEN Tail(arg) ELSE arg
      k == IndexOfDot(body)
  IN  IF k = 0 THEN AllDigits(body)
      ELSE /\ AllDigits(SubSeq(body, 1, k - 1))
           /\ AllDigits(SubSeq(body, k + 1, Len(body)))

\* the number of zeros after the "." from which a fraction is below half
\* the distance between an integer of one digit and the next double
\* (10^-16 < 2^-53): parseFloat then returns the integer part
RoundedAway == 16

LeadingZeros(s) ==
  IF \E i \in 1..Len(s) : s[i] # "0"
  THEN (CHOOSE i \in 1..Len(s) : s[i] # "0" /\ \A j \in 1..(i - 1) : s[j] = "0")
         - 1
  ELSE Len(s)

\* parseFloat(arg), for an arg of the number format: the double nearest to
\* the decimal.  On the short tokens the decimal itself stands for it (the
\* comparisons with integers and % 1 agree); a fraction that starts with
\* RoundedAway zeros after an integer part of one non-zero digit is rounded
\* away
parseFloat(arg) ==
  LET neg == arg # <<>> /\ Head(arg) = "-"
      body == IF neg THEN Tail(arg) ELSE arg
      k == IndexOfDot(body)
      ip == IF k = 0 THEN body ELSE SubSeq(body, 1, k - 1)
      fp == IF k = 0 THEN <<>> ELSE SubSeq(body, k + 1, Len(body))
      m == DigitsValue(ip) * Pow10(Len(fp)) + DigitsValue(fp)
  IN  IF Len(ip) = 1 /\ ip # <<"0">> /\ LeadingZeros(fp) >= RoundedAway
      THEN IntVal(IF neg THEN 0 - DigitsValue(ip) ELSE DigitsValue(ip))
      ELSE Normal(IF neg THEN 0 - m ELSE m, Len(fp))

(***************************************************************************)
(* Argument, StringArgument, RestArgument, NumberArgument.  A field that   *)
(* is null in the source is the empty set here, and {v} once set to v.     *)
(***************************************************************************)
\* Argument.createArgumentType()[type]: the constructors' field values
createArgument(type) ==
  [type |-> type, name |-> "_", optional |-> FALSE, default |-> Undefined,
   regex |-> {}, maxlen |-> {}, minlen |-> {}, whitelist |-> {},
   uppercase |-> FALSE, lowercase |-> FALSE,
   min |-> {}, max |-> {}, int |-> FALSE,
   forcePositive |-> FALSE, forceNegative |-> FALSE]

setName(a, name) == [a EXCEPT !.name = name]
optional(a, fallback) == [a EXCEPT !.default = fallback, !.optional = TRUE]
isOptional(a) == a.optional
getDefault(a) == a.default
getName(a) == a.name

\* StringArgument's builders
match(a, regex) == [a EXCEPT !.regex = {regex}]
maxLength(a, len) == [a EXCEPT !.maxlen = {len}]
minLength(a, len) == [a EXCEPT !.minlen = {len}]
forceUpperCase(a) == [a EXCEPT !.lowercase = FALSE, !.uppercase = TRUE]
forceLowerCase(a) == [a EXCEPT !.lowercase = TRUE, !.uppercase = FALSE]
whitelist(a, words) ==
  [a EXCEPT !.whitelist = IF @ = {} THEN {words}
                          ELSE {w \cup words : w \in @}]

\* NumberArgument's builders
minNumber(a, n) == [a EXCEPT !.min = {n}]
maxNumber(a, n) == [a EXCEPT !.max = {n}]
integer(a) == [a EXCEPT !.int = TRUE]
positive(a) == [a EXCEPT !.forcePositive = TRUE, !.forceNegative = FALSE]
negative(a) == [a EXCEPT !.forcePositive = FALSE, !.forceNegative = TRUE]

\* the one regular expression of the model: /^a+$/i
RegexTest(regex, s) ==
  s # <<>> /\ \A i \in 1..Len(s) : LowerChar(s[i]) = "a"

\* what a validator returns ([val, rest]) or throws (a ParseError, which
\* carries the Argument; check names the violated constraint, which decides
\* the message)
Valid(val, rest) ==
  [ok |-> TRUE, val |-> val, rest |-> rest, check |-> "none"]
ParseError(check) ==
  [ok |-> FALSE, val |-> Undefined, rest |-> <<>>, check |-> check]

\* _validate as it would be if an empty candidate counted as a missing
\* argument
StringArgument__validate_RejectEmpty(a, arg0, rest) ==
  LET arg1 == IF a.uppercase THEN toUpperCase(arg0) ELSE arg0
      arg == IF a.lowercase THEN toLowerCase(arg1) ELSE arg1
  IN  IF arg = <<>> THEN ParseError("minlen")
      ELSE IF \E m \in a.minlen : m > Len(arg) THEN ParseError("minlen")
      ELSE IF \E m \in a.maxlen : m < Len(arg) THEN ParseError("maxlen")
      ELSE IF \E w \in a.whitelist : arg \notin w THEN ParseError("whitelist")
      ELSE IF \E r \in a.regex : ~RegexTest(r, arg) THEN ParseError("regex")
      ELSE Valid(StrVal(arg), rest)

StringArgument__validate(a, arg0, rest) ==
  LET arg1 == IF a.uppercase THEN toUpperCase(arg0) ELSE arg0
      arg == IF a.lowercase THEN toLowerCase(arg1) ELSE arg1
  IN  IF \E m \in a.minlen : m > Len(arg) THEN ParseError("minlen")
      ELSE IF \E m \in a.maxlen : m < Len(arg) THEN ParseError("maxlen")
      ELSE IF \E w \in a.whitelist : arg \notin w THEN ParseError("whitelist")
      ELSE IF \E r \in a.regex : ~RegexTest(r, arg) THEN ParseError("regex")
      ELSE Valid(StrVal(arg), rest)

StringArgument_validate(a, args) ==
  StringArgument__validate(a, SplitShift(args), SplitRestJoin(args))

RestArgument_validate(a, args) == StringArgument__validate(a, args, <<>>)

NumberArgument_validate(a, args) ==
  LET arg == SplitShift(args)
      num == parseFloat(arg)
  IN  IF ~IsNumberFormat(arg) THEN ParseError("format")
      ELSE IF \E m \in a.min : NumLess(num, m) THEN ParseError("min")
      ELSE IF \E m \in a.max : NumLess(m, num) THEN ParseError("max")
      ELSE IF a.int /\ HasFraction(num) THEN ParseError("integer")
      ELSE IF a.forcePositive /\ NumLeq(num, IntVal(0))
           THEN ParseError("positive")
      ELSE IF a.forceNegative /\ NumLeq(IntVal(0), num)
           THEN ParseError("negative")
      ELSE Valid(num, SplitRestJoin(args))

\* arg.validate(args), by the class of arg
Argument_validate(a, args) ==
  CASE a.type = "string" -> StringArgument_validate(a, args)
    [] a.type = "rest" -> RestArgument_validate(a, args)
    [] a.type = "number" -> NumberArgument_validate(a, args)

(***************************************************************************)
(* Command.validateArgs and Command.validate.                              *)
(***************************************************************************)
\* a thrown ParseError: the Argument it carries and the violated check
Thrown(a, check) == [argument |-> a, check |-> check]

\* the forEach body as it would be if the failing token of an optional
\* Argument were consumed
RECURSIVE validateArgsFrom_ConsumeOnDefault(_, _, _, _, _)
validateArgsFrom_ConsumeOnDefault(arguments, i, args, result, errors) ==
  IF i > Len(arguments)
  THEN [threw |-> <<>>, result |-> result, remaining |-> args,
        errors |-> errors, validated |-> i - 1]
  ELSE LET arg == arguments[i]
           r == Argument_validate(arg, args)
       IN  IF r.ok
           THEN validateArgsFrom_ConsumeOnDefault(arguments, i + 1,
                  trim(r.rest), (getName(arg) :> r.val) @@ result, errors)
           ELSE IF isOptional(arg)
           THEN validateArgsFrom_ConsumeOnDefault(arguments, i + 1,
                  trim(SplitRestJoin(args)),
                  (getName(arg) :> getDefault(arg)) @@ result,
                  Append(errors, Thrown(arg, r.check)))
           ELSE [threw |-> <<Thrown(arg, r.check)>>, result |-> result,
                 remaining |-> args, errors |-> errors, validated |-> i]

\* the body of validateArgs' forEach, from Argument i on; threw is <<e>>
\* when a required Argument's ParseError propagated, <<>> otherwise
RECURSIVE validateArgsFrom(_, _, _, _, _)
validateArgsFrom(arguments, i, args, result, errors) ==
  IF i > Len(arguments)
  THEN [threw |-> <<>>, result |-> result, remaining |-> args,
        errors |-> errors, validated |-> i - 1]
  ELSE LET arg == arguments[i]
           r == Argument_validate(arg, args)
       IN  IF r.ok
           THEN validateArgsFrom(arguments, i + 1, trim(r.rest),
                                 (getName(arg) :> r.val) @@ result, errors)
           ELSE IF isOptional(arg)
           THEN validateArgsFrom(arguments, i + 1, args,
                                 (getName(arg) :> getDefault(arg)) @@ result,
                                 Append(errors, Thrown(arg, r.check)))
           ELSE [threw |-> <<Thrown(arg, r.check)>>, result |-> result,
                 remaining |-> args, errors |-> errors, validated |-> i]

validateArgs(arguments, args) ==
  validateArgsFrom(arguments, 1, trim(args), <<>>, <<>>)

\* Command.validate with errors.pop() in place of errors.shift()
Command_validate_LastError(arguments, args) ==
  LET v == validateArgs(arguments, args)
  IN  IF v.threw # <<>>
      THEN [type |-> "ParseError", result |-> <<>>, parseError |-> v.threw]
      ELSE IF Len(v.remaining) > 0
      THEN [type |-> "TooManyArgumentsError", result |-> <<>>,
            parseError |-> IF v.errors = <<>> THEN <<>>
                           ELSE <<v.errors[Len(v.errors)]>>]
      ELSE [type |-> "ok", result |-> v.result, parseError |-> <<>>]

\* Command.validate without the check of the remaining input
Command_validate_NoTrailingCheck(arguments, args) ==
  LET v == validateArgs(arguments, args)
  IN  IF v.threw # <<>>
      THEN [type |-> "ParseError", result |-> <<>>, parseError |-> v.threw]
      ELSE [type |-> "ok", result |-> v.result, parseError |-> <<>>]

\* Command.validate: the mapping, or the error it throws.  parseError is the
\* ParseError thrown, or the one a TooManyArgumentsError carries (<<>> for
\* undefined)
Command_validate(arguments, args) ==
  LET v == validateArgs(arguments, args)
  IN  IF v.threw # <<>>
      THEN [type |-> "ParseError", result |-> <<>>, parseError |-> v.threw]
      ELSE IF Len(v.remaining) > 0
      THEN [type |-> "TooManyArgumentsError", result |-> <<>>,
            parseError |-> IF v.errors = <<>> THEN <<>>
                           ELSE <<Head(v.errors)>>]
      ELSE [type |-> "ok", result |-> v.result, parseError |-> <<>>]

(***************************************************************************)
(* CommandBase / Command and the CommandCollector.  The collector's        *)
(* _commands is a sequence of Command records.                             *)
(***************************************************************************)
\* new Command(cmd, collector)
NewCommand(cmd) ==
  [name |-> cmd, alias |-> <<>>, arguments |-> <<>>,
   permissionHandler |-> <<>>, execHandler |-> <<>>, permissions |-> {}]

getCommandName(cmd) == cmd.name
getAlias(cmd) == cmd.alias
getCommandNames(cmd) == <<getCommandName(cmd)>> \o getAlias(cmd)

Includes(seq, x) == \E i \in 1..Len(seq) : seq[i] = x

\* CommandCollector.isValidCommandName: TRUE where the source returns true,
\* FALSE where it throws
isValidCommandName(name) == ~(Len(name) < 1) /\ ~HasWhiteSpace(name)

\* collector.getAvailableCommands(name): the matching Commands, in order
getAvailableCommands(cmds, name) ==
  SelectSeq(cmds, LAMBDA cmd : Includes(getCommandNames(cmd), toLowerCase(name)))

\* isCommandCanSave comparing canonical names only, as isPossibleCommand does
isCommandCanSave_NamesOnly(cmds, cmdName) ==
  IF ~isValidCommandName(toLowerCase(cmdName)) THEN "throws"
  ELSE IF \E i \in 1..Len(cmds) :
            getCommandName(cmds[i]) = toLowerCase(cmdName)
  THEN "false" ELSE "true"

\* collector.isCommandCanSave(cmdName): "throws", or the boolean returned
isCommandCanSave(cmds, cmdName) ==
  IF ~isValidCommandName(toLowerCase(cmdName)) THEN "throws"
  ELSE IF Len(getAvailableCommands(cmds, toLowerCase(cmdName))) > 0
  THEN "false" ELSE "true"

\* collector.registerCommand(name), for a valid name
registerCommand(cmds, name) == Append(cmds, NewCommand(toLowerCase(name)))

\* createCommand(cmdName): whether it throws, and the registry afterwards
createCommand(cmds, cmdName) ==
  IF isCommandCanSave(cmds, cmdName) # "true"
  THEN [threw |-> TRUE, commands |-> cmds]
  ELSE [threw |-> FALSE, commands |-> registerCommand(cmds, cmdName)]

\* the truth value of what the callback of alias' filter returns: the array
\* getAvailableCommands returns is an object, and an object is truthy
AliasFilter(cmds, a) ==
  LET found == getAvailableCommands(cmds, a) IN found = found

\* command.alias(...alias) on the Command at index i
alias(cmds, i, names) ==
  LET lower == [k \in 1..Len(names) |-> toLowerCase(names[k])]
  IN  IF \E k \in 1..Len(lower) : ~isValidCommandName(lower[k])
      THEN [threw |-> TRUE, commands |-> cmds]
      ELSE [threw |-> FALSE,
            commands |->
              [cmds EXCEPT ![i].alias =
                 @ \o SelectSeq(lower, LAMBDA a : AliasFilter(cmds, a))]]

\* the built-in command the module registers when it is loaded
HelpName == <<"h", "e", "l", "p">>
HelpCommand ==
  [NewCommand(HelpName) EXCEPT
     !.arguments =
        <<optional(setName(createArgument("string"), "cmdName"),
                   StrVal(<<>>))>>,
     !.execHandler = <<"help">>]

(***************************************************************************)
(* The prefix cache: getPrefix and setPrefix.  Each call is a record that  *)
(* runs from one await to the next; pc names the await it is suspended in. *)
(***************************************************************************)
\* var defaultPrefix = "!"
DefaultPrefix == <<"!">>

\* the cache test as a truthiness test: guildPrefixCache[guildId]
InCache_Truthy(cache, g) == g \in DOMAIN cache /\ cache[g] # <<>>

\* guildId in guildPrefixCache
InCache(cache, g) == g \in DOMAIN cache

\* the cache assignment as it would be if it replaced the cache object
CachePut_Replace(cache, g, prefix) == (g :> prefix)

\* guildPrefixCache[guildId] = prefix
CachePut(cache, g, prefix) == (g :> prefix) @@ cache

\* !result, for the string the reader resolved to
IsEmptyResult(result) == result = <<>>

\* a call as it begins; alone says that no other call on its guild was in
\* flight then
NewCall(op, g, value, alone) ==
  [op |-> op, guild |-> g, value |-> value, pc |-> "start",
   result |-> <<>>, reads |-> 0, written |-> <<>>, alone |-> alone]

\* the call returned prefix
Returned(call, prefix) == [call EXCEPT !.pc = "done", !.result = <<prefix>>]
\* the call returned nothing (setPrefix)
Completed(call) == [call EXCEPT !.pc = "done"]
\* the call rejected
Rejected(call) == [call EXCEPT !.pc = "threw"]

\* getPrefix as it would be without the test of getPrefixCallback: the
\* reader is called whenever the cache misses
getPrefix_start_NoReaderTest(call, cache, hasReader) ==
  IF InCache(cache, call.guild)
  THEN Returned(call, cache[call.guild])
  ELSE [call EXCEPT !.pc = "read", !.reads = @ + 1]

\* getPrefix up to its first await (or its return): the call and the cache
getPrefix_start(call, cache, hasReader) ==
  IF InCache(cache, call.guild)
  THEN Returned(call, cache[call.guild])
  ELSE IF hasReader
  THEN [call EXCEPT !.pc = "read", !.reads = @ + 1]
  ELSE Returned(call, DefaultPrefix)

\* the cache after the reader resolved to result
getPrefix_cacheAfterRead(cache, g, result) ==
  IF IsEmptyResult(result) THEN cache ELSE CachePut(cache, g, result)

\* getPrefix from the reader's answer to its next await (or its return)
getPrefix_afterRead(call, result, hasWriter) ==
  IF IsEmptyResult(result)
  THEN IF hasWriter
       THEN [call EXCEPT !.pc = "write",
                         !.written = Append(@, <<call.guild, DefaultPrefix>>)]
       ELSE Rejected(call)   \* setPrefixCallback is not a function
  ELSE Returned(call, result)

\* getPrefix after the write-back of the default
getPrefix_afterWrite(call) == Returned(call, DefaultPrefix)

\* setPrefix up to its await (or its return)
setPrefix_start(call, hasWriter) ==
  IF hasWriter
  THEN [call EXCEPT !.pc = "write",
                    !.written = Append(@, <<call.guild, call.value>>)]
  ELSE Completed(call)

(***************************************************************************)
(* Command builders used to set up the Commands that are dispatched.       *)
(***************************************************************************)
exec(cmd, callback) == [cmd EXCEPT !.execHandler = Append(@, callback)]
checkPermission(cmd, callback) ==
  [cmd EXCEPT !.permissionHandler = Append(@, callback)]
addArgument(cmd, arg) == [cmd EXCEPT !.arguments = Append(@, arg)]
requireBotPermission(cmd, perm) == [cmd EXCEPT !.permissions = @ \cup {perm}]

\* the registry with its last Command replaced (a builder call on the Command
\* createCommand returned)
Built(cmds, cmd) == [cmds EXCEPT ![Len(cmds)] = cmd]
Last(cmds) == cmds[Len(cmds)]

(***************************************************************************)
(* getPrefix run from call to return, its awaits resolving at once.        *)
(***************************************************************************)
getPrefix(cache, st, hasReader, hasWriter, g) ==
  LET c0 == getPrefix_start(NewCall("getPrefix", g, <<>>, TRUE), cache,
                            hasReader)
      read == c0.pc = "read"
      c1 == IF read THEN getPrefix_afterRead(c0, st[g], hasWriter) ELSE c0
      wrote == c1.pc = "write"
  IN  [threw |-> c1.pc = "threw",
       result |-> IF wrote THEN getPrefix_afterWrite(c1).result ELSE c1.result,
       cache |-> IF read THEN getPrefix_cacheAfterRead(cache, g, st[g])
                 ELSE cache,
       store |-> IF wrote THEN [st EXCEPT ![g] = DefaultPrefix] ELSE st]

(***************************************************************************)
(* messageHandler / executeCommand: the split of the message and the       *)
(* lookup of the Commands.                                                 *)
(***************************************************************************)
RECURSIVE IndexOfWhiteSpaceFrom(_, _)
IndexOfWhiteSpaceFrom(s, i) ==
  IF i > Len(s) THEN 0
  ELSE IF s[i] \in WhiteSpace THEN i ELSE IndexOfWhiteSpaceFrom(s, i + 1)

\* the groups of /^(?<command>\S*)\s*(?<args>.*)\s*$/s
MatchCommand(message) ==
  LET k == IndexOfWhiteSpaceFrom(message, 1)
  IN  IF k = 0 THEN message ELSE SubSeq(message, 1, k - 1)
MatchArgs(message) ==
  LET k == IndexOfWhiteSpaceFrom(message, 1)
  IN  IF k = 0 THEN <<>> ELSE trimStart(SubSeq(message, k, Len(message)))

\* CommandUtility.isPossibleCommand, given the prefix looked up
isPossibleCommand(prefix, message) == startsWith(message, prefix)

\* CommandUtility.getAvailableCommands, given the prefix looked up: the
\* indices of the matching Commands
CommandUtility_getAvailableCommands(cmds, prefix, message) ==
  IF ~startsWith(message, prefix) THEN <<>>
  ELSE LET cmdName == SubSeq(message, Len(prefix) + 1, Len(message))
       IN  SelectSeq([i \in 1..Len(cmds) |-> i],
                     LAMBDA i : Includes(getCommandNames(cmds[i]),
                                         toLowerCase(cmdName)))

(***************************************************************************)
(* Command.dispatch and CommandBase._dispatchCommand for one matched       *)
(* Command: a task, which runs from one await to the next.                 *)
(***************************************************************************)
\* botPermission.missing(this._permissions), given what the bot holds
Missing(required, held) == required \ held

\* the text a template literal gives an un-awaited promise
PromiseText == <<"[object Promise]">>

Message(to, kind, prefix) == [to |-> to, kind |-> kind, prefix |-> prefix]

\* the forEach callback as it is called for the Command at index c
NewTask(c, cmd, entry, args, held, verdicts) ==
  [cmd |-> c, entry |-> entry, args |-> args, held |-> held,
   verdicts |-> verdicts, pc |-> "start",
   missing |-> {}, validation |-> "none", error |-> "none",
   asked |-> [p \in 1..Len(cmd.permissionHandler) |-> 0],
   handlers |-> [h \in 1..Len(cmd.execHandler) |-> "idle"],
   invoked |-> [h \in 1..Len(cmd.execHandler) |-> 0],
   sends |-> <<>>, emitted |-> 0]

\* the task enters the catch block with error e
Caught(t, e) == [t EXCEPT !.pc = "caught", !.error = e]

\* Command.dispatch as it would be if the arguments were handed over without
\* this.validate(args)
dispatch_NoValidate(t, cmd) ==
  LET missing == Missing(cmd.permissions, t.held)
      t1 == [t EXCEPT !.missing = missing]
  IN  IF Cardinality(missing) > 0
      THEN [t1 EXCEPT !.pc = "send",
              !.sends = Append(@, Message(
                 IF "SEND_MESSAGES" \in missing THEN "author" ELSE "channel",
                 "missingPermission", <<>>))]
      ELSE [t1 EXCEPT !.validation = "ok", !.pc = "permission",
                      !.asked = [p \in DOMAIN @ |-> 1]]

\* Command.dispatch up to its first await: the capability check, then
\* this.validate(args) evaluated for the call of _dispatchCommand, then the
\* permission predicates called by isAllowed
dispatch(t, cmd) ==
  LET missing == Missing(cmd.permissions, t.held)
      v == Command_validate(cmd.arguments, t.args)
      t1 == [t EXCEPT !.missing = missing]
  IN  IF "SEND_MESSAGES" \in missing
      THEN [t1 EXCEPT !.pc = "send",
              !.sends = Append(@, Message("author", "missingPermission",
                                          <<>>))]
      ELSE IF Cardinality(missing) > 0
      THEN [t1 EXCEPT !.pc = "send",
              !.sends = Append(@, Message("channel", "missingPermission",
                                          <<>>))]
      ELSE IF v.type # "ok"
      THEN Caught([t1 EXCEPT !.validation = v.type], v.type)
      ELSE [t1 EXCEPT !.validation = "ok", !.pc = "permission",
                      !.asked = [p \in DOMAIN @ |-> 1]]

\* _dispatchCommand as it would be with the handlers awaited one after the
\* other: only the first is invoked when the execution phase begins
dispatchCommand_afterPermission_Sequential(t) ==
  IF \E p \in DOMAIN t.verdicts : t.verdicts[p] = "throws"
  THEN Caught(t, "Error")
  ELSE IF ~\A p \in DOMAIN t.verdicts : t.verdicts[p] = "true"
  THEN Caught(t, "PermissionError")
  ELSE IF DOMAIN t.handlers = {}
  THEN [t EXCEPT !.pc = "done"]
  ELSE [t EXCEPT !.pc = "exec",
                 !.handlers = [h \in DOMAIN @ |->
                                 IF h = 1 THEN "pending" ELSE @[h]],
                 !.invoked = [h \in DOMAIN @ |->
                                IF h = 1 THEN @[h] + 1 ELSE @[h]]]

\* _dispatchCommand as it would be if isAllowed used some(r => r): an empty
\* list of predicates then allows nothing
dispatchCommand_afterPermission_Some(t) ==
  IF \E p \in DOMAIN t.verdicts : t.verdicts[p] = "throws"
  THEN Caught(t, "Error")
  ELSE IF ~\E p \in DOMAIN t.verdicts : t.verdicts[p] = "true"
  THEN Caught(t, "PermissionError")
  ELSE IF DOMAIN t.handlers = {}
  THEN [t EXCEPT !.pc = "done"]
  ELSE [t EXCEPT !.pc = "exec",
                 !.handlers = [h \in DOMAIN @ |-> "pending"],
                 !.invoked = [h \in DOMAIN @ |-> @[h] + 1]]

\* _dispatchCommand after await this.hasPermission(ev.message): isAllowed is
\* Promise.all of the predicates' results, then every(r => r)
dispatchCommand_afterPermission(t) ==
  IF \E p \in DOMAIN t.verdicts : t.verdicts[p] = "throws"
  THEN Caught(t, "Error")
  ELSE IF ~\A p \in DOMAIN t.verdicts : t.verdicts[p] = "true"
  THEN Caught(t, "PermissionError")
  ELSE IF DOMAIN t.handlers = {}
  THEN [t EXCEPT !.pc = "done"]
  ELSE [t EXCEPT !.pc = "exec",
                 !.handlers = [h \in DOMAIN @ |-> "pending"],
                 !.invoked = [h \in DOMAIN @ |-> @[h] + 1]]

\* handler h settles; Promise.all rejects with the first rejection and
\* resolves when all have resolved
dispatchCommand_handlerSettles(t, h, ok) ==
  LET hs == [t.handlers EXCEPT ![h] = IF ok THEN "ok" ELSE "failed"]
      t1 == [t EXCEPT !.handlers = hs]
  IN  IF t.pc # "exec" THEN t1
      ELSE IF ~ok THEN Caught(t1, "Error")
      ELSE IF \A k \in DOMAIN hs : hs[k] = "ok" THEN [t1 EXCEPT !.pc = "done"]
      ELSE t1

\* the send of dispatch's capability report settles
dispatch_afterSend(t, ok) ==
  IF ok THEN [t EXCEPT !.pc = "done"] ELSE Caught(t, "Error")

\* the reply of the catch block, by the class of the error; prefix is the
\* text the template literal gives
CatchReply(t, prefix) ==
  LET kind == CASE t.error = "PermissionError" -> "noPermission"
                [] t.error = "ParseError" -> "invalidUsage"
                [] t.error = "TooManyArgumentsError" -> "invalidUsage"
                [] OTHER -> "unexpectedError"
  IN  [t EXCEPT !.pc = "reply",
                !.sends = Append(@, Message("reply", kind,
                    IF kind = "unexpectedError" THEN <<>> ELSE prefix))]

\* the catch block after its reply settled: the unclassified error is
\* emitted once the reply resolved; a rejected reply rejects the callback
catch_afterReply(t, ok) ==
  IF ~ok THEN [t EXCEPT !.pc = "rejected"]
  ELSE IF t.error \in {"PermissionError", "ParseError", "TooManyArgumentsError"}
  THEN [t EXCEPT !.pc = "done"]
  ELSE [t EXCEPT !.pc = "done", !.emitted = @ + 1]

(***************************************************************************)
(* The state.                                                              *)
(***************************************************************************)
VARIABLES
  vArguments,   \* the Arguments of the Command under validation
  vArgs,        \* the argument text handed to Command.validate
  vInternal,    \* what validateArgs returned inside Command.validate
  vOutcome,     \* what Command.validate returned or threw
  commands,     \* collector._commands
  lastCall,     \* the last call on the registry and whether it threw
  guildPrefixCache,   \* guild id -> prefix, for the guilds cached
  getPrefixCallback,  \* whether setCallback gave a reader
  setPrefixCallback,  \* whether setCallback gave a writer
  store,        \* the external persistence: guild id -> prefix ("" none)
  calls,        \* the getPrefix and setPrefix calls, in the order they began
  msg,          \* the message being handled
  mpc,          \* where messageHandler / executeCommand stands
  sent,         \* what the handler itself sent to the channel
  tasks         \* one task for each Command the message resolved to

validateVars == <<vArguments, vArgs, vInternal, vOutcome>>
registryVars == <<commands, lastCall>>
prefixVars ==
  <<guildPrefixCache, getPrefixCallback, setPrefixCallback, store, calls>>
dispatchVars == <<msg, mpc, sent, tasks>>
vars == <<validateVars, registryVars, prefixVars, dispatchVars>>

(***************************************************************************)
(* The validation of one Command against one argument text.                *)
(***************************************************************************)
\* characters of the argument texts
ArgChars == {"a", "A", " ", "\t", "3", "0", ".", "-"}
\* "3." followed by RoundedAway zeros and "3": 3 + 3 * 10^-17
LongFraction ==
  <<"3", ".">> \o [i \in 1..RoundedAway |-> "0"] \o <<"3">>

Inputs == StringsUpTo(ArgChars, MaxLen) \cup {LongFraction}

\* createArgument("string").setName("text"): echo's Argument
TextArgument == setName(createArgument("string"), "text")
RestArgument == setName(createArgument("rest"), "rest")
NumberArgument == setName(createArgument("number"), "num")

\* required String Arguments with min=a and max=b
RangedStrings ==
  {maxLength(minLength(TextArgument, a), b) : a, b \in 0..MaxLen}

ConstrainedStrings ==
  {minLength(TextArgument, 2), maxLength(TextArgument, 1),
   whitelist(TextArgument, {<<"a">>, <<"3">>}), match(TextArgument, "a+"),
   forceLowerCase(whitelist(TextArgument, {<<"a">>})),
   forceUpperCase(match(TextArgument, "a+"))}

\* optional String Arguments with default "x"
OptionalStrings ==
  {optional(setName(a, "name"), StrVal(<<"x">>)) :
     a \in ConstrainedStrings \cup {TextArgument}}

Numbers ==
  {NumberArgument, integer(NumberArgument), positive(NumberArgument),
   negative(NumberArgument), minNumber(NumberArgument, IntVal(3)),
   maxNumber(NumberArgument, IntVal(0)),
   integer(minNumber(NumberArgument, IntVal(3))),
   positive(integer(NumberArgument)),
   negative(integer(NumberArgument)),
   integer(maxNumber(minNumber(NumberArgument, IntVal(30)), IntVal(0))),
   optional(integer(NumberArgument), IntVal(0))}

Rests == {RestArgument, minLength(RestArgument, 1),
          optional(minLength(RestArgument, 2), StrVal(<<>>))}

SingleArguments ==
  RangedStrings \cup ConstrainedStrings \cup OptionalStrings \cup Numbers
    \cup Rests \cup {TextArgument}

\* the Argument lists of the Commands validated
ArgumentLists ==
  {<<>>} \cup {<<a>> : a \in SingleArguments}
    \cup {<<a, b>> :
            a \in {optional(integer(NumberArgument), IntVal(0)),
                   optional(setName(maxLength(TextArgument, 1), "name"),
                            StrVal(<<"x">>)),
                   TextArgument, minLength(TextArgument, 2)},
            b \in {TextArgument, NumberArgument, RestArgument,
                   optional(setName(minLength(TextArgument, 2), "name2"),
                            StrVal(<<"x">>))}}

NotValidated ==
  [threw |-> <<>>, result |-> <<>>, remaining |-> <<>>, errors |-> <<>>,
   validated |-> 0 - 1]
NoOutcome == [type |-> "none", result |-> <<>>, parseError |-> <<>>]

ValidateIdle ==
  /\ vArguments = <<>>
  /\ vArgs = <<>>
  /\ vInternal = NotValidated
  /\ vOutcome = NoOutcome

NoCall == [op |-> "none", cmd |-> 0, names |-> <<>>, threw |-> FALSE]

\* the registry as the module leaves it when loaded
RegistryIdle ==
  /\ commands = <<HelpCommand>>
  /\ lastCall = NoCall

Guilds == {"g1", "g2"}

\* const guildPrefixCache = {}; no callbacks; nothing stored
PrefixIdle ==
  /\ guildPrefixCache = <<>>
  /\ getPrefixCallback = FALSE
  /\ setPrefixCallback = FALSE
  /\ store = [g \in Guilds |-> <<>>]
  /\ calls = <<>>

NoMessage ==
  [entry |-> "none", content |-> <<>>, guild |-> FALSE, author |-> "none",
   mentionsBot |-> FALSE, mentionsOthers |-> FALSE]

DispatchIdle ==
  /\ msg = NoMessage
  /\ mpc = "idle"
  /\ sent = <<>>
  /\ tasks = <<>>

InitValidate ==
  /\ DispatchIdle
  /\ vArguments \in ArgumentLists
  /\ vArgs \in Inputs
  /\ vInternal = NotValidated
  /\ vOutcome = NoOutcome
  /\ RegistryIdle
  /\ PrefixIdle

\* command.validate(args)
Validate ==
  /\ vOutcome = NoOutcome
  /\ vInternal' = validateArgs(vArguments, vArgs)
  /\ vOutcome' = Command_validate(vArguments, vArgs)
  /\ UNCHANGED <<vArguments, vArgs, registryVars, prefixVars, dispatchVars>>

NextValidate == Validate

SpecValidate == InitValidate /\ [][NextValidate]_vars

(***************************************************************************)
(* The prefix operations, interleaved at their awaits.                     *)
(***************************************************************************)
\* the prefixes handed to setPrefix, and those found in the store
PrefixValues == {<<"?">>, <<>>}
StoredValues == {<<>>, <<"$">>}

InitPrefix ==
  /\ guildPrefixCache = <<>>
  /\ getPrefixCallback \in BOOLEAN
  /\ setPrefixCallback \in BOOLEAN
  /\ store \in [Guilds -> StoredValues]
  /\ calls = <<>>
  /\ RegistryIdle
  /\ ValidateIdle
  /\ DispatchIdle

InFlight(call) == call.pc \in {"read", "write"}
NoneInFlight(g) ==
  \A i \in 1..Len(calls) : calls[i].guild = g => ~InFlight(calls[i])

\* getPrefix(g) is called and runs to its first await
GetPrefix(g) ==
  /\ Len(calls) < MaxCalls
  /\ calls' = Append(calls,
       getPrefix_start(NewCall("getPrefix", g, <<>>, NoneInFlight(g)),
                       guildPrefixCache, getPrefixCallback))
  /\ UNCHANGED <<guildPrefixCache, getPrefixCallback, setPrefixCallback,
                 store, validateVars, registryVars, dispatchVars>>

\* setPrefix(g, v) is called and runs to its await
SetPrefix(g, v) ==
  /\ Len(calls) < MaxCalls
  /\ guildPrefixCache' = CachePut(guildPrefixCache, g, v)
  /\ calls' = Append(calls,
       setPrefix_start(NewCall("setPrefix", g, v, NoneInFlight(g)),
                       setPrefixCallback))
  /\ UNCHANGED <<getPrefixCallback, setPrefixCallback, store, validateVars,
                 registryVars, dispatchVars>>

\* the reader resolves, with what the store holds, for call i
ReaderResolves(i) ==
  /\ calls[i].pc = "read"
  /\ LET result == store[calls[i].guild]
     IN  /\ guildPrefixCache' =
              getPrefix_cacheAfterRead(guildPrefixCache, calls[i].guild,
                                       result)
         /\ calls' = [calls EXCEPT ![i] =
              getPrefix_afterRead(@, result, setPrefixCallback)]
  /\ UNCHANGED <<getPrefixCallback, setPrefixCallback, store, validateVars,
                 registryVars, dispatchVars>>

\* the reader rejects for call i
ReaderRejects(i) ==
  /\ calls[i].pc = "read"
  /\ calls' = [calls EXCEPT ![i] = Rejected(@)]
  /\ UNCHANGED <<guildPrefixCache, getPrefixCallback, setPrefixCallback,
                 store, validateVars, registryVars, dispatchVars>>

\* the writer resolves for call i, having stored what it was given
WriterResolves(i) ==
  /\ calls[i].pc = "write"
  /\ LET w == calls[i].written[Len(calls[i].written)]
     IN  store' = [store EXCEPT ![w[1]] = w[2]]
  /\ calls' = [calls EXCEPT ![i] =
       IF @.op = "getPrefix" THEN getPrefix_afterWrite(@)
       ELSE Completed(@)]
  /\ UNCHANGED <<guildPrefixCache, getPrefixCallback, setPrefixCallback,
                 validateVars, registryVars, dispatchVars>>

\* the writer rejects for call i
WriterRejects(i) ==
  /\ calls[i].pc = "write"
  /\ calls' = [calls EXCEPT ![i] = Rejected(@)]
  /\ UNCHANGED <<guildPrefixCache, getPrefixCallback, setPrefixCallback,
                 store, validateVars, registryVars, dispatchVars>>

NextPrefix ==
  \/ \E g \in Guilds : GetPrefix(g)
  \/ \E g \in Guilds, v \in PrefixValues : SetPrefix(g, v)
  \/ \E i \in 1..Len(calls) : ReaderResolves(i)
  \/ \E i \in 1..Len(calls) : ReaderRejects(i)
  \/ \E i \in 1..Len(calls) : WriterResolves(i)
  \/ \E i \in 1..Len(calls) : WriterRejects(i)

SpecPrefix == InitPrefix /\ [][NextPrefix]_vars

(***************************************************************************)
(* The dispatch of messages: messageHandler and executeCommand.            *)
(***************************************************************************)
Ping == <<"p", "i", "n", "g">>
Pong == <<"p", "o", "n", "g">>
Echo == <<"e", "c", "h", "o">>
Adm == <<"a", "d", "m">>
Hello == <<"h", "e", "l", "l", "o">>
World == <<"w", "o", "r", "l", "d">>

\* the Commands dispatched: ping; echo with one required String Argument;
\* adm with two permission predicates, a Number Argument, two required
\* capabilities and two handlers; pong, which took the alias echo
DispatchRegistry ==
  LET r1 == createCommand(<<HelpCommand>>, Ping).commands
      r2 == Built(r1, exec(Last(r1), "ping"))
      r3 == createCommand(r2, Echo).commands
      r4 == Built(r3, exec(addArgument(Last(r3), TextArgument), "echo"))
      r5 == createCommand(r4, Adm).commands
      r6 == Built(r5,
              exec(exec(requireBotPermission(requireBotPermission(
                addArgument(checkPermission(checkPermission(Last(r5),
                  "isAdmin"), "isOwner"), NumberArgument),
                "SEND_MESSAGES"), "EMBED_LINKS"), "adm1"), "adm2"))
      r7 == createCommand(r6, Pong).commands
      r8 == alias(r7, Len(r7), <<Echo>>).commands
  IN  Built(r8, exec(Last(r8), "pong"))

Capabilities == {"SEND_MESSAGES", "EMBED_LINKS"}
Predicates == {"isAdmin", "isOwner"}
Verdicts == {"true", "false", "throws"}
TheGuild == "g1"

\* the texts after the prefix
CommandTexts ==
  {Ping, toUpperCase(Ping), Pong, <<"n", "o">>, <<>>,
   Echo, Echo \o <<" ">> \o Hello, Echo \o <<" ">> \o Hello \o <<" ">> \o World,
   Adm, Adm \o <<" ", "3">>, Adm \o <<" ", "a">>, Adm \o <<" ", "3", " ", "3">>,
   HelpName \o <<"\t">> \o Ping}

Contents == {p \o c : p \in {<<"!">>, <<"?">>, <<>>}, c \in CommandTexts}

Message_(content, guild, author, mentionsBot, mentionsOthers) ==
  [entry |-> "messageHandler", content |-> content, guild |-> guild,
   author |-> author, mentionsBot |-> mentionsBot,
   mentionsOthers |-> mentionsOthers]

\* guild messages of a user with every content, with and without a mention
\* of the bot beside another; then the messages the filters stop and the
\* messages that mention the bot alone
Messages ==
  {Message_(c, TRUE, "user", b, b) : c \in Contents, b \in BOOLEAN}
    \cup {Message_(<<"!">> \o Ping, g, a, FALSE, o) :
            g \in BOOLEAN, a \in {"bot", "none"}, o \in BOOLEAN}
    \cup {Message_(<<"!">> \o Ping, FALSE, "user", b, FALSE) : b \in BOOLEAN}
    \cup {Message_(c, TRUE, "user", TRUE, FALSE) : c \in {<<>>, <<"!">> \o Ping}}

Init ==
  /\ commands = DispatchRegistry
  /\ lastCall = NoCall
  /\ guildPrefixCache = <<>>
  /\ getPrefixCallback \in BOOLEAN
  /\ setPrefixCallback = getPrefixCallback
  /\ store \in [Guilds -> {<<>>, <<"?">>}]
  /\ store["g2"] = <<>>
  /\ calls = <<>>
  /\ ValidateIdle
  /\ DispatchIdle

\* one getPrefix(TheGuild) in the current state
Lookup(cache, st) ==
  getPrefix(cache, st, getPrefixCallback, setPrefixCallback, TheGuild)

\* the tasks of commands.forEach for the matched Commands, in an environment
\* where the bot holds the capabilities held and predicate p answers vd[p]
Spawn(matches, entry, args, held, vd) ==
  [k \in 1..Len(matches) |->
     LET cmd == commands[matches[k]]
     IN  NewTask(matches[k], cmd, entry, args, held,
                 [p \in 1..Len(cmd.permissionHandler) |->
                    vd[cmd.permissionHandler[p]]])]

\* the mention test as it would be without the negations on the other
\* mentions
MentionsBotOnly_WithOthers(m) == m.mentionsBot /\ m.mentionsOthers

\* mentions.has(client.user) with no role, everyone or channel mention
MentionsBotOnly(m) == m.mentionsBot /\ ~m.mentionsOthers

\* messageHandler from the message to commands.forEach: the filters, the
\* mention reply, the two prefix lookups, the split and the resolution
MessageHandler(m, held, vd) ==
  /\ mpc = "idle"
  /\ msg' = m
  /\ IF ~m.guild \/ m.author = "none" \/ m.author = "bot"
     THEN /\ mpc' = "returned"
          /\ UNCHANGED <<sent, tasks, guildPrefixCache, store>>
     ELSE IF MentionsBotOnly(m)
     THEN \* the two getCommandPrefix calls of the template are not awaited
          LET l1 == Lookup(guildPrefixCache, store)
              l2 == Lookup(l1.cache, l1.store)
          IN  /\ mpc' = "send"
              /\ sent' = Append(sent,
                           Message("channel", "prefixHelp", PromiseText))
              /\ guildPrefixCache' = l2.cache
              /\ store' = l2.store
              /\ UNCHANGED tasks
     ELSE LET l1 == Lookup(guildPrefixCache, store)
              l2 == Lookup(l1.cache, l1.store)
              possible == ~l1.threw /\ isPossibleCommand(l1.result[1], m.content)
              matches ==
                IF possible /\ ~l2.threw
                THEN CommandUtility_getAvailableCommands(
                       commands, l2.result[1], MatchCommand(m.content))
                ELSE <<>>
          IN  /\ guildPrefixCache' = IF possible THEN l2.cache ELSE l1.cache
              /\ store' = IF possible THEN l2.store ELSE l1.store
              /\ mpc' = IF l1.threw \/ (possible /\ l2.threw)
                        THEN "rejected" ELSE "returned"
              /\ tasks' = Spawn(matches, m.entry, MatchArgs(m.content), held,
                                vd)
              /\ UNCHANGED sent
  /\ UNCHANGED <<getPrefixCallback, setPrefixCallback, calls, validateVars,
                 registryVars>>

\* the channel.send of the prefix help settles
MentionSendSettles(ok) ==
  /\ mpc = "send"
  /\ mpc' = IF ok THEN "returned" ELSE "rejected"
  /\ UNCHANGED <<msg, sent, tasks, prefixVars, validateVars, registryVars>>

\* executeCommand(cmd, ev, cmdUtil) from its call to commands.forEach
ExecuteCommand(cmd, held, vd) ==
  /\ mpc = "idle"
  /\ LET l0 == Lookup(guildPrefixCache, store)
         text == l0.result[1] \o cmd
         l1 == Lookup(l0.cache, l0.store)
         l2 == Lookup(l1.cache, l1.store)
         failed == l0.threw \/ l1.threw \/ l2.threw
         matches ==
           IF ~failed /\ isPossibleCommand(l1.result[1], text)
           THEN CommandUtility_getAvailableCommands(
                  commands, l2.result[1], MatchCommand(text))
           ELSE <<>>
     IN  /\ msg' = [entry |-> "executeCommand",
                    content |-> IF failed THEN cmd ELSE text,
                    guild |-> TRUE, author |-> "user",
                    mentionsBot |-> FALSE, mentionsOthers |-> FALSE]
         /\ guildPrefixCache' = l2.cache
         /\ store' = l2.store
         /\ mpc' = IF failed THEN "rejected" ELSE "returned"
         /\ tasks' = Spawn(matches, "executeCommand",
                           IF failed THEN <<>> ELSE MatchArgs(text), held, vd)
  /\ UNCHANGED <<sent, getPrefixCallback, setPrefixCallback, calls,
                 validateVars, registryVars>>

\* the step of a task as it would be if one try surrounded a sequential
\* loop over the Commands: a failure leaves the Commands not yet dispatched
\* undispatched
TaskStep_FailFast(k, t) ==
  /\ tasks' = [j \in 1..Len(tasks) |->
                 IF j = k THEN t
                 ELSE IF t.pc = "caught" /\ tasks[j].pc = "start"
                 THEN [tasks[j] EXCEPT !.pc = "rejected"]
                 ELSE tasks[j]]
  /\ UNCHANGED <<msg, mpc, sent, prefixVars, validateVars, registryVars>>

TaskStep(k, t) ==
  /\ tasks' = [tasks EXCEPT ![k] = t]
  /\ UNCHANGED <<msg, mpc, sent, prefixVars, validateVars, registryVars>>

\* cmd.dispatch(args, ev, cmdUtil) runs to its first await
Dispatch(k) ==
  /\ tasks[k].pc = "start"
  /\ TaskStep(k, dispatch(tasks[k], commands[tasks[k].cmd]))

\* the predicates of the permission check have settled
PermissionSettles(k) ==
  /\ tasks[k].pc = "permission"
  /\ TaskStep(k, dispatchCommand_afterPermission(tasks[k]))

\* a handler settles
HandlerSettles(k, h, ok) ==
  /\ tasks[k].handlers[h] = "pending"
  /\ TaskStep(k, dispatchCommand_handlerSettles(tasks[k], h, ok))

\* the send of the capability report settles
SendSettles(k, ok) ==
  /\ tasks[k].pc = "send"
  /\ TaskStep(k, dispatch_afterSend(tasks[k], ok))

\* the catch block of messageHandler up to its reply: the prefix is awaited
CatchMessageHandler(k) ==
  /\ tasks[k].pc = "caught"
  /\ tasks[k].entry = "messageHandler"
  /\ LET l == Lookup(guildPrefixCache, store)
     IN  /\ tasks' = [tasks EXCEPT ![k] =
                IF l.threw THEN [@ EXCEPT !.pc = "rejected"]
                ELSE CatchReply(@, l.result[1])]
         /\ guildPrefixCache' = l.cache
         /\ store' = l.store
  /\ UNCHANGED <<msg, mpc, sent, getPrefixCallback, setPrefixCallback, calls,
                 validateVars, registryVars>>

\* the catch block of executeCommand up to its reply: a classified error's
\* template calls getCommandPrefix without awaiting it
CatchExecuteCommand(k) ==
  /\ tasks[k].pc = "caught"
  /\ tasks[k].entry = "executeCommand"
  /\ LET l == Lookup(guildPrefixCache, store)
         classified == tasks[k].error # "Error"
     IN  /\ tasks' = [tasks EXCEPT ![k] = CatchReply(@, PromiseText)]
         /\ guildPrefixCache' = IF classified THEN l.cache
                                ELSE guildPrefixCache
         /\ store' = IF classified THEN l.store ELSE store
  /\ UNCHANGED <<msg, mpc, sent, getPrefixCallback, setPrefixCallback, calls,
                 validateVars, registryVars>>

\* the reply of the catch block settles
ReplySettles(k, ok) ==
  /\ tasks[k].pc = "reply"
  /\ TaskStep(k, catch_afterReply(tasks[k], ok))

Settled(t) ==
  /\ t.pc \in {"done", "rejected"}
  /\ \A h \in DOMAIN t.handlers : t.handlers[h] # "pending"

\* everything the message started has settled: the next message
NextMessage ==
  /\ mpc \in {"returned", "rejected"}
  /\ \A k \in 1..Len(tasks) : Settled(tasks[k])
  /\ msg' = NoMessage
  /\ mpc' = "idle"
  /\ sent' = <<>>
  /\ tasks' = <<>>
  /\ UNCHANGED <<prefixVars, validateVars, registryVars>>

Next ==
  \/ \E m \in Messages, held \in SUBSET Capabilities,
        vd \in [Predicates -> Verdicts] : MessageHandler(m, held, vd)
  \/ \E ok \in BOOLEAN : MentionSendSettles(ok)
  \/ \E cmd \in CommandTexts, held \in SUBSET Capabilities,
        vd \in [Predicates -> Verdicts] : ExecuteCommand(cmd, held, vd)
  \/ \E k \in 1..Len(tasks) : Dispatch(k)
  \/ \E k \in 1..Len(tasks) : PermissionSettles(k)
  \/ \E k \in 1..Len(tasks) :
       \E h \in DOMAIN tasks[k].handlers, ok \in BOOLEAN :
         HandlerSettles(k, h, ok)
  \/ \E k \in 1..Len(tasks), ok \in BOOLEAN : SendSettles(k, ok)
  \/ \E k \in 1..Len(tasks) : CatchMessageHandler(k)
  \/ \E k \in 1..Len(tasks) : CatchExecuteCommand(k)
  \/ \E k \in 1..Len(tasks), ok \in BOOLEAN : ReplySettles(k, ok)
  \/ NextMessage

Spec == Init /\ [][Next]_vars

(***************************************************************************)
(* Claims about Command.validate (specification SpecValidate).             *)
(***************************************************************************)
Validated == vOutcome # NoOutcome

\* the Arguments of vArguments that are optional
OptionalIndices == {i \in 1..Len(vArguments) : isOptional(vArguments[i])}

\* the errors validateArgs recorded are those of optional Arguments, in
\* declaration order
ErrorsInDeclarationOrder ==
  \E f \in [1..Len(vInternal.errors) -> OptionalIndices] :
    /\ \A i \in 1..Len(vInternal.errors) :
         vInternal.errors[i].argument = vArguments[f[i]]
    /\ \A i, j \in 1..Len(vInternal.errors) : i < j => f[i] < f[j]

\* C8: Command.validate throws TooManyArgumentsError exactly when every
\* Argument was processed without a required Argument's ParseError and the
\* trimmed remaining input is non-empty; the error carries the first recorded
\* ParseError of an optional Argument, or nothing; a Command without
\* Arguments throws it on a non-blank input and returns the empty mapping on
\* the empty input.
C8_TooManyArguments ==
  Validated =>
    /\ (vOutcome.type = "TooManyArgumentsError") <=>
         (/\ vInternal.threw = <<>>
          /\ vInternal.validated = Len(vArguments)
          /\ trim(vInternal.remaining) # <<>>)
    /\ vInternal.remaining = trim(vInternal.remaining)
    /\ ErrorsInDeclarationOrder
    /\ vOutcome.type = "TooManyArgumentsError" =>
         vOutcome.parseError =
           IF vInternal.errors = <<>> THEN <<>> ELSE <<vInternal.errors[1]>>
    /\ (vArguments = <<>> /\ trim(vArgs) # <<>>) =>
         vOutcome.type = "TooManyArgumentsError" /\ vOutcome.parseError = <<>>
    /\ (vArguments = <<>> /\ trim(vArgs) = <<>>) =>
         vOutcome.type = "ok" /\ vOutcome.result = <<>>

\* two optional Arguments fell back and the first one's error is carried
C8_Witness ==
  /\ Validated
  /\ vOutcome.type = "TooManyArgumentsError"
  /\ Len(vInternal.errors) = 2
  /\ vOutcome.parseError = <<vInternal.errors[1]>>
  /\ vInternal.errors[1] # vInternal.errors[2]

\* the Command has exactly one optional String Argument with default "x",
\* and the token of the input fails its constraint
OneOptionalStringFails ==
  /\ Len(vArguments) = 1
  /\ vArguments[1] \in OptionalStrings
  /\ ~Argument_validate(vArguments[1], trim(vArgs)).ok

\* C9 as stated: such a validation produces {name: "x"} and raises nothing.
C9_Original ==
  (Validated /\ OneOptionalStringFails) =>
    /\ vOutcome.type = "ok"
    /\ vOutcome.result = (getName(vArguments[1]) :> StrVal(<<"x">>))

\* C9 amended: validateArgs raises nothing, yields {name: "x"}, records the
\* ParseError and consumes nothing; Command.validate returns that mapping
\* only when the trimmed input is empty, and otherwise throws
\* TooManyArgumentsError carrying the recorded ParseError.
C9_OptionalFallback ==
  (Validated /\ OneOptionalStringFails) =>
    /\ vInternal.threw = <<>>
    /\ vInternal.result = (getName(vArguments[1]) :> StrVal(<<"x">>))
    /\ Len(vInternal.errors) = 1
    /\ vInternal.errors[1].argument = vArguments[1]
    /\ vInternal.remaining = trim(vArgs)
    /\ trim(vArgs) = <<>> =>
         /\ vOutcome.type = "ok"
         /\ vOutcome.result = (getName(vArguments[1]) :> StrVal(<<"x">>))
    /\ trim(vArgs) # <<>> =>
         /\ vOutcome.type = "TooManyArgumentsError"
         /\ vOutcome.parseError = <<vInternal.errors[1]>>

C9_Witness ==
  /\ Validated
  /\ OneOptionalStringFails
  /\ trim(vArgs) # <<>>
  /\ vOutcome.type = "TooManyArgumentsError"

(***************************************************************************)
(* The registry: createCommand and command.alias, called in any order.     *)
(***************************************************************************)
\* the names handed to createCommand and alias: empty, with whitespace, and
\* two names in both cases
Names == {<<>>, <<"a">>, <<"A">>, <<"b">>, <<"B">>, <<" ">>, <<"a", " ">>}

\* the argument lists of alias(...alias)
AliasLists ==
  {<<a>> : a \in Names} \cup {<<a, b>> : a \in {<<"b">>, <<"A">>}, b \in Names}

RECURSIVE TotalAliases(_)
TotalAliases(cmds) ==
  IF cmds = <<>> THEN 0 ELSE Len(Head(cmds).alias) + TotalAliases(Tail(cmds))

InitRegistry ==
  /\ DispatchIdle
  /\ RegistryIdle
  /\ ValidateIdle
  /\ PrefixIdle

CreateCommand(cmdName) ==
  LET r == createCommand(commands, cmdName)
  IN  /\ commands' = r.commands
      /\ lastCall' = [op |-> "createCommand", cmd |-> 0,
                      names |-> <<cmdName>>, threw |-> r.threw]
      /\ UNCHANGED <<validateVars, prefixVars, dispatchVars>>

\* alias(...) on a Command createCommand returned (the built-in help Command
\* is not exported)
Alias(i, names) ==
  LET r == alias(commands, i, names)
  IN  /\ r.threw \/ TotalAliases(commands) + Len(names) <= MaxAlias
      /\ commands' = r.commands
      /\ lastCall' = [op |-> "alias", cmd |-> i, names |-> names,
                      threw |-> r.threw]
      /\ UNCHANGED <<validateVars, prefixVars, dispatchVars>>

NextRegistry ==
  \/ \E cmdName \in Names : CreateCommand(cmdName)
  \/ \E i \in 2..Len(commands) :
       \E names \in AliasLists : Alias(i, names)

SpecRegistry == InitRegistry /\ [][NextRegistry]_vars

(***************************************************************************)
(* Claims about the registry (specification SpecRegistry).                 *)
(***************************************************************************)
\* Command i answers to name n, compared case-insensitively
AnswersTo(cmds, i, n) ==
  \E k \in 1..Len(getCommandNames(cmds[i])) :
    toLowerCase(getCommandNames(cmds[i])[k]) = toLowerCase(n)

\* C2: no two distinct Commands of the registry share a canonical name or
\* alias, so resolving any name returns at most one Command.
C2_Original ==
  /\ \A i, j \in 1..Len(commands) :
       i # j => ~\E k \in 1..Len(getCommandNames(commands[i])) :
                  AnswersTo(commands, j, getCommandNames(commands[i])[k])
  /\ \A n \in Names : Len(getAvailableCommands(commands, n)) <= 1

\* C3: when another Command is registered under a name and alias(...) is
\* called with that name (and valid names only), nothing is raised and the
\* calling Command's alias list does not hold that name afterwards.
C3_Original ==
  \A k \in 1..Len(lastCall.names) :
    (/\ lastCall.op = "alias"
     /\ \A m \in 1..Len(lastCall.names) :
          isValidCommandName(toLowerCase(lastCall.names[m]))
     /\ \E j \in 1..Len(commands) :
          /\ j # lastCall.cmd
          /\ getCommandName(commands[j]) = toLowerCase(lastCall.names[k]))
    => /\ ~lastCall.threw
       /\ ~Includes(getAlias(commands[lastCall.cmd]),
                    toLowerCase(lastCall.names[k]))

\* the names createCommand must refuse in a registry
Refused(cmds, n) ==
  \/ n = <<>>
  \/ HasWhiteSpace(n)
  \/ \E i \in 1..Len(cmds) : AnswersTo(cmds, i, n)

\* C4: createCommand(name) throws exactly when name is empty, holds
\* whitespace or equals, case-insensitively, the canonical name or an alias
\* of a registered Command, and then leaves the registry unchanged;
\* otherwise it appends exactly one Command, named by the lower-cased name.
C4_CreateCommand ==
  [][\A n \in Names :
       CreateCommand(n) =>
         /\ lastCall'.threw <=> Refused(commands, n)
         /\ Refused(commands, n) => commands' = commands
         /\ ~Refused(commands, n) =>
              /\ Len(commands') = Len(commands) + 1
              /\ SubSeq(commands', 1, Len(commands)) = commands
              /\ commands'[Len(commands')] = NewCommand(toLowerCase(n))]_vars

\* createCommand("B") was refused because a Command holds the alias "b"
C4_Witness ==
  /\ lastCall.op = "createCommand"
  /\ lastCall.names = << <<"B">> >>
  /\ lastCall.threw
  /\ \E i \in 1..Len(commands) :
       /\ Includes(getAlias(commands[i]), <<"b">>)
       /\ getCommandName(commands[i]) # <<"b">>
  /\ \A i \in 1..Len(commands) : getCommandName(commands[i]) # <<"b">>

(***************************************************************************)
(* Claims about the prefix cache (specification SpecPrefix).               *)
(***************************************************************************)
\* the call on the guild of call j that began last before j, or 0
LastBefore(j) ==
  LET before == {i \in 1..(j - 1) : calls[i].guild = calls[j].guild}
  IN  IF before = {} THEN 0
      ELSE CHOOSE i \in before : \A k \in before : k <= i

\* call j is a getPrefix(g) called after setPrefix(g, v), call i, completed,
\* with no other call on g in flight or begun since setPrefix was called
RoundTrip(i, j) ==
  /\ calls[j].op = "getPrefix"
  /\ calls[j].alone
  /\ i = LastBefore(j)
  /\ calls[i].op = "setPrefix"
  /\ calls[i].alone
  /\ calls[i].pc = "done"

\* C5: getPrefix(g) called after setPrefix(g, v) completed, no other prefix
\* operation on g being in between or in flight, returns v and does not
\* invoke the reader.
C5_RoundTrip ==
  \A j \in 1..Len(calls) : \A i \in 1..(j - 1) :
    RoundTrip(i, j) =>
      /\ calls[j].pc = "done"
      /\ calls[j].result = <<calls[i].value>>
      /\ calls[j].reads = 0

\* a round trip of the empty prefix, with a reader that would have answered
\* otherwise
C5_Witness ==
  \E j \in 1..Len(calls) : \E i \in 1..(j - 1) :
    /\ RoundTrip(i, j)
    /\ getPrefixCallback
    /\ calls[i].value = <<>>
    /\ store[calls[j].guild] = <<"$">>
    /\ calls[j].result = << <<>> >>

\* call i is a getPrefix that missed the cache, read empty and wrote the
\* default back, alone on its guild
MissedAndReadEmpty(i) ==
  /\ calls[i].op = "getPrefix"
  /\ calls[i].alone
  /\ calls[i].pc = "done"
  /\ calls[i].reads = 1
  /\ calls[i].written # <<>>

\* C6: a getPrefix(g) that misses the cache and reads empty writes the
\* default back once and caches it for g: every later getPrefix(g) (one that
\* began after it returned, with no setPrefix(g) since) returns from the
\* cache and invokes neither the reader nor the writer.
C6_Original ==
  \A i \in 1..Len(calls) :
    MissedAndReadEmpty(i) =>
      /\ calls[i].written = << <<calls[i].guild, DefaultPrefix>> >>
      /\ (\A j \in (i + 1)..Len(calls) : calls[j].guild # calls[i].guild) =>
           /\ InCache(guildPrefixCache, calls[i].guild)
           /\ guildPrefixCache[calls[i].guild] = DefaultPrefix
      /\ \A j \in (i + 1)..Len(calls) :
           (/\ calls[j].op = "getPrefix"
            /\ calls[j].guild = calls[i].guild
            /\ \A k \in (i + 1)..j : calls[k].guild = calls[i].guild =>
                 /\ calls[k].op = "getPrefix"
                 /\ LastBefore(k) = i => calls[k].alone)
           => /\ calls[j].pc = "done"
              /\ calls[j].reads = 0
              /\ calls[j].written = <<>>

(***************************************************************************)
(* Claims about the dispatch of a Command.                                 *)
(***************************************************************************)
Task(k) == tasks[k]
TaskCommand(k) == commands[tasks[k].cmd]

\* the three gates, from what the task was given: no required capability is
\* missing, the argument text validates, every predicate was asked and
\* answered true
GatesPassed(k) ==
  /\ Missing(TaskCommand(k).permissions, Task(k).held) = {}
  /\ Command_validate(TaskCommand(k).arguments, Task(k).args).type = "ok"
  /\ \A p \in DOMAIN Task(k).verdicts :
       Task(k).asked[p] = 1 /\ Task(k).verdicts[p] = "true"

HandlerInvoked(k) == \E h \in DOMAIN Task(k).invoked : Task(k).invoked[h] > 0

\* the dispatch of echo, with its one required String Argument text, on the
\* argument text "hello world"
EchoHelloWorld(k) ==
  /\ getCommandName(TaskCommand(k)) = Echo
  /\ TaskCommand(k).arguments = <<TextArgument>>
  /\ Task(k).args = Hello \o <<" ">> \o World

\* C1: in every dispatch attempt a handler is invoked only if no required
\* capability was missing, the argument text validated and every permission
\* predicate returned true; the dispatch of echo on "hello world" raises
\* TooManyArgumentsError and never invokes the handler.
C1_HandlerOnlyAfterGates ==
  \A k \in 1..Len(tasks) :
    /\ HandlerInvoked(k) => GatesPassed(k)
    /\ EchoHelloWorld(k) =>
         /\ ~HandlerInvoked(k)
         /\ Task(k).pc # "start" => Task(k).error = "TooManyArgumentsError"

C1_Witness ==
  /\ msg.content = <<"!">> \o Echo \o <<" ">> \o Hello \o <<" ">> \o World
  /\ \E k \in 1..Len(tasks) :
       /\ EchoHelloWorld(k)
       /\ Task(k).pc = "done"
       /\ Task(k).error = "TooManyArgumentsError"
       /\ ~HandlerInvoked(k)

Attempted(k) == Task(k).pc \in {"caught", "reply", "done", "rejected"}

\* C7: the permission check comes before the validation of the arguments:
\* when no required capability is missing, no predicate throws and some
\* predicate returns false, the attempt fails with PermissionError whatever
\* the argument text, never with ParseError or TooManyArgumentsError.
C7_Original ==
  \A k \in 1..Len(tasks) :
    ( /\ Attempted(k)
      /\ Missing(TaskCommand(k).permissions, Task(k).held) = {}
      /\ \A p \in DOMAIN Task(k).verdicts : Task(k).verdicts[p] # "throws"
      /\ \E p \in DOMAIN Task(k).verdicts : Task(k).verdicts[p] = "false" )
    => Task(k).error = "PermissionError"

Classified(e) == e \in {"ParseError", "TooManyArgumentsError", "PermissionError"}

Replied(k, kinds) ==
  \E i \in 1..Len(Task(k).sends) :
    Task(k).sends[i].to = "reply" /\ Task(k).sends[i].kind \in kinds

\* C10: a failure of a dispatch that is not classified is caught and never
\* leaves the callback, and ends with the opaque reply and one 'exception'
\* event; a classified failure ends with a reply and no event.
C10_Original ==
  \A k \in 1..Len(tasks) :
    (Task(k).error # "none" /\ Task(k).pc \in {"done", "rejected"}) =>
      IF Classified(Task(k).error)
      THEN /\ Replied(k, {"noPermission", "invalidUsage"})
           /\ Task(k).emitted = 0
      ELSE /\ Task(k).pc = "done"
           /\ Replied(k, {"unexpectedError"})
           /\ Task(k).emitted = 1

(***************************************************************************)
(* Claims about the capability check of Command.dispatch.                  *)
(***************************************************************************)
MissingOf(k) == Missing(TaskCommand(k).permissions, Task(k).held)

PredicatesPass(k) ==
  \A p \in DOMAIN Task(k).verdicts : Task(k).verdicts[p] = "true"

ArgumentsValidate(k) ==
  Command_validate(TaskCommand(k).arguments, Task(k).args).type = "ok"

\* an attempt whose predicates pass and whose arguments validate, with some
\* required capability missing, after dispatch ran
CapabilityCase(k) ==
  /\ Task(k).pc # "start"
  /\ PredicatesPass(k)
  /\ ArgumentsValidate(k)
  /\ MissingOf(k) # {}

\* the messages of the task sent to a target
SentTo(k, to) ==
  {i \in 1..Len(Task(k).sends) : Task(k).sends[i].to = to}

\* the one notification of the capability check went to where it belongs
OneCapabilityReport(k) ==
  LET to == IF "SEND_MESSAGES" \in MissingOf(k) THEN "author" ELSE "channel"
  IN  /\ Len(Task(k).sends) >= 1
      /\ Task(k).sends[1] = Message(to, "missingPermission", <<>>)
      /\ \A i \in 2..Len(Task(k).sends) :
           Task(k).sends[i].kind # "missingPermission"

\* C11 as stated: with predicates passing and arguments valid, a missing
\* SEND_MESSAGES gives one private notification to the author and nothing to
\* the channel, other missing capabilities give one report to the channel;
\* no handler is invoked and the dispatch completes without raising.
C11_Original ==
  \A k \in 1..Len(tasks) :
    CapabilityCase(k) =>
      /\ OneCapabilityReport(k)
      /\ Len(Task(k).sends) = 1
      /\ ~HandlerInvoked(k)
      /\ Task(k).error = "none"
      /\ Task(k).pc \in {"send", "done"}

(***************************************************************************)
(* Claims about the pipeline of messageHandler.                            *)
(***************************************************************************)
\* the prefix getPrefix resolves for the guild of the message
ResolvedPrefix == Lookup(guildPrefixCache, store).result[1]

\* the Commands the command token of the message resolves to
Resolved ==
  CommandUtility_getAvailableCommands(commands, ResolvedPrefix,
                                      MatchCommand(msg.content))

\* a guild message of a non-bot author that starts with the resolved prefix
\* and resolves to exactly one Command, which has no permission predicates,
\* lacks no capability and is given valid arguments
SoleCommandCase ==
  /\ mpc \in {"returned", "rejected"}
  /\ msg.entry = "messageHandler"
  /\ msg.guild
  /\ msg.author = "user"
  /\ startsWith(msg.content, ResolvedPrefix)
  /\ Len(Resolved) = 1
  /\ LET cmd == commands[Resolved[1]]
     IN  /\ cmd.permissionHandler = <<>>
         /\ Command_validate(cmd.arguments, MatchArgs(msg.content)).type = "ok"
  /\ \A k \in 1..Len(tasks) : MissingOf(k) = {}

Entered(k) == Task(k).pc \notin {"start", "permission"}

EachHandlerOnce(k) ==
  /\ \A h \in DOMAIN Task(k).invoked : Task(k).invoked[h] <= 1
  /\ Entered(k) => \A h \in DOMAIN Task(k).invoked : Task(k).invoked[h] = 1

\* C12 as stated: such a message has each handler of its Command invoked
\* exactly once and no error reply is produced.
C12_Original ==
  SoleCommandCase =>
    /\ Len(tasks) = 1
    /\ EachHandlerOnce(1)
    /\ Task(1).error = "none"
    /\ Task(1).sends = <<>>

\* C12 amended: such a message, when it does not mention the bot alone, has
\* each handler of its Command invoked exactly once, and the only reply it
\* can produce is the one unexpected-error reply after a handler failed.
C12_SoleCommand ==
  (SoleCommandCase /\ ~MentionsBotOnly(msg)) =>
    /\ Len(tasks) = 1
    /\ EachHandlerOnce(1)
    /\ Task(1).error \in {"none", "Error"}
    /\ Task(1).error = "none" => Task(1).sends = <<>>
    /\ Task(1).error = "Error" =>
         /\ \E h \in DOMAIN Task(1).handlers : Task(1).handlers[h] = "failed"
         /\ Task(1).sends \in
              {<<>>, <<Message("reply", "unexpectedError", <<>>)>>}

\* "!ping" under the prefix "!" has run the one handler of ping once
C12_Witness ==
  /\ SoleCommandCase
  /\ ~MentionsBotOnly(msg)
  /\ msg.content = <<"!">> \o Ping
  /\ ResolvedPrefix = <<"!">>
  /\ getCommandName(TaskCommand(1)) = Ping
  /\ Task(1).pc = "done"
  /\ Task(1).invoked = <<1>>
  /\ Task(1).handlers = <<"ok">>
  /\ Task(1).sends = <<>>

\* the gates of task k pass in its environment
OwnGatesPass(k) ==
  MissingOf(k) = {} /\ ArgumentsValidate(k) /\ PredicatesPass(k)

\* a task's outcome follows from its own gates and failures alone
OwnOutcome(k) ==
  /\ (OwnGatesPass(k) /\ Entered(k)) =>
       \A h \in DOMAIN Task(k).invoked : Task(k).invoked[h] = 1
  /\ Task(k).pc \in {"caught", "reply", "rejected"} => Task(k).error # "none"
  /\ ~(Task(k).error # "none" /\ ~HandlerInvoked(k) /\ OwnGatesPass(k))

\* a step of the pipeline changes one task at most
OneTaskSteps ==
  \A k \in 1..Len(tasks) :
    (Len(tasks') = Len(tasks) /\ tasks'[k] # tasks[k]) =>
      \A j \in 1..Len(tasks) : j # k => tasks'[j] = tasks[j]

\* C13: the Commands a message resolves to are dispatched as independent
\* tasks: whatever the other tasks did, failed or not, a task whose own
\* gates pass invokes its handlers, a task fails only by its own error, and
\* no step of one task changes another.
C13_IndependentTasks ==
  /\ [](\A k \in 1..Len(tasks) : OwnOutcome(k))
  /\ [][OneTaskSteps]_vars

\* of two matched Commands one has failed and the other has run its handler
C13_Witness ==
  /\ Len(tasks) = 2
  /\ \E k, j \in 1..Len(tasks) :
       /\ Task(k).error # "none"
       /\ Task(k).pc = "done"
       /\ Task(j).error = "none"
       /\ Task(j).pc = "done"
       /\ \A h \in DOMAIN Task(j).invoked : Task(j).invoked[h] = 1
       /\ \A h \in DOMAIN Task(j).handlers : Task(j).handlers[h] = "ok"

\* a guild message of a non-bot author that mentions the bot alone
MentionCase ==
  /\ mpc # "idle"
  /\ msg.entry = "messageHandler"
  /\ msg.guild
  /\ msg.author = "user"
  /\ msg.mentionsBot
  /\ ~msg.mentionsOthers

\* C14: a guild message of a non-bot author that mentions the bot, with no
\* role, everyone or channel mention, gets exactly one prefix-help send and
\* nothing else: no Command is resolved or dispatched and no handler is
\* invoked, even when the text starts with the prefix and names a Command.
C14_MentionStops ==
  MentionCase =>
    /\ Len(sent) = 1
    /\ sent[1].to = "channel"
    /\ sent[1].kind = "prefixHelp"
    /\ tasks = <<>>

\* the mentioning message is "!ping", which alone would resolve to ping
C14_Witness ==
  /\ MentionCase
  /\ mpc = "returned"
  /\ msg.content = <<"!">> \o Ping
  /\ startsWith(msg.content, ResolvedPrefix)
  /\ Len(Resolved) = 1
  /\ Len(sent) = 1
  /\ tasks = <<>>

(***************************************************************************)
(* Claims about the validators (specification SpecValidate).               *)
(***************************************************************************)
\* the length of the first whitespace-delimited token of s
FirstTokenLength(s) ==
  LET k == IndexOfWhiteSpaceFrom(s, 1)
  IN  IF k = 0 THEN Len(s) ELSE k - 1

\* the Command validated has one required String Argument with a min and a
\* max and neither whitelist nor regex
RangedCase ==
  /\ Validated
  /\ Len(vArguments) = 1
  /\ vArguments[1] \in RangedStrings

\* C15: a required String Argument with min=a and max=b validates exactly
\* when the length of the first token of the trimmed input lies in [a, b],
\* and otherwise throws a ParseError that carries the Argument.
C15_Original ==
  RangedCase =>
    LET arg == vArguments[1]
        n == FirstTokenLength(trim(vArgs))
        inRange == /\ \A a \in arg.minlen : a <= n
                   /\ \A b \in arg.maxlen : n <= b
    IN  /\ (vInternal.threw = <<>>) <=> inRange
        /\ vInternal.threw # <<>> =>
             /\ vInternal.threw[1].argument = arg
             /\ vOutcome.type = "ParseError"

\* the Command validated has one Number Argument with integer()
IntegerCase ==
  /\ Validated
  /\ Len(vArguments) = 1
  /\ vArguments[1].type = "number"
  /\ vArguments[1].int

\* the token the Argument is given
NumberToken == SplitShift(trim(vArgs))

\* the token has the number format and digits other than 0 after the "."
NonZeroFraction(tok) ==
  /\ IsNumberFormat(tok)
  /\ IndexOfDot(tok) # 0
  /\ \E i \in (IndexOfDot(tok) + 1)..Len(tok) : tok[i] # "0"

\* the check whose ParseError the Argument threw, "none" when it threw none
ReportedCheck ==
  IF vInternal.threw # <<>> THEN vInternal.threw[1].check
  ELSE IF vInternal.errors # <<>> THEN vInternal.errors[1].check
  ELSE "none"

CheckOrder == <<"format", "min", "max", "integer", "positive", "negative">>

\* whether the token violates a check of the Argument, each check taken alone
Violates(a, tok, check) ==
  IF ~IsNumberFormat(tok) THEN check = "format"
  ELSE LET num == parseFloat(tok)
       IN  CASE check = "format" -> FALSE
             [] check = "min" -> \E m \in a.min : NumLess(num, m)
             [] check = "max" -> \E m \in a.max : NumLess(m, num)
             [] check = "integer" -> a.int /\ HasFraction(num)
             [] check = "positive" -> a.forcePositive /\ ~NumLess(IntVal(0), num)
             [] check = "negative" -> a.forceNegative /\ ~NumLess(num, IntVal(0))

\* the first check of the order that the token violates, "none" when none
FirstViolated(a, tok) ==
  IF \E i \in 1..Len(CheckOrder) : Violates(a, tok, CheckOrder[i])
  THEN CheckOrder[CHOOSE i \in 1..Len(CheckOrder) :
         /\ Violates(a, tok, CheckOrder[i])
         /\ \A j \in 1..(i - 1) : ~Violates(a, tok, CheckOrder[j])]
  ELSE "none"

\* C16: a Number Argument with integer() throws a ParseError on every token
\* of the number format with a non-zero fraction; on "3.0" it succeeds
\* with the integer 3 when no other check fails; the failure reported is
\* that of the first violated check in the order format, min, max, integer,
\* sign.
C16_Original ==
  IntegerCase =>
    /\ NonZeroFraction(NumberToken) => ReportedCheck # "none"
    /\ ReportedCheck = FirstViolated(vArguments[1], NumberToken)
    /\ (NumberToken = <<"3", ".", "0">> /\ ReportedCheck = "none") =>
         vInternal.result[getName(vArguments[1])] = IntVal(3)

(***************************************************************************)
(* Claims about the prefix cache under interleaving (SpecPrefix).          *)
(***************************************************************************)
\* the setPrefix calls on guild g
SetPrefixCalls(g) ==
  {i \in 1..Len(calls) : calls[i].op = "setPrefix" /\ calls[i].guild = g}

\* the last setPrefix call on guild g
LastSetPrefix(g) ==
  CHOOSE i \in SetPrefixCalls(g) : \A j \in SetPrefixCalls(g) : j <= i

\* C17: once setPrefix(g, v) has updated the cache, the cached prefix of g
\* stays v until the next setPrefix(g, .), also when a getPrefix(g) that
\* missed the cache earlier completes its read afterwards.
C17_Original ==
  \A g \in Guilds :
    SetPrefixCalls(g) # {} =>
      /\ InCache(guildPrefixCache, g)
      /\ guildPrefixCache[g] = calls[LastSetPrefix(g)].value

(***************************************************************************)
(* Claims about the chain of Command.validateArgs (SpecValidate).          *)
(***************************************************************************)
\* validateArgs as it stands after the first n Arguments of the Command
AfterArguments(n) == validateArgs(SubSeq(vArguments, 1, n), vArgs)

\* Argument i is reached: no required Argument before it threw
Reached(i) == AfterArguments(i - 1).threw = <<>>

\* C18: the Arguments are processed in declaration order against one
\* remaining input: an optional Argument that throws ParseError has its
\* default stored and its error recorded and leaves the remaining input as
\* it was for the next Argument; a required Argument that throws ends the
\* validation: no later Argument is validated and no mapping is returned.
C18_ArgumentChain ==
  Validated =>
    \A i \in 1..Len(vArguments) :
      LET arg == vArguments[i]
          before == AfterArguments(i - 1)
          after == AfterArguments(i)
          r == Argument_validate(arg, before.remaining)
      IN  /\ ~Reached(i) => vInternal.validated < i
          /\ (Reached(i) /\ r.ok) =>
               /\ after.threw = <<>>
               /\ after.remaining = trim(r.rest)
               /\ after.result[getName(arg)] = r.val
               /\ after.errors = before.errors
          /\ (Reached(i) /\ ~r.ok /\ isOptional(arg)) =>
               /\ after.threw = <<>>
               /\ after.remaining = before.remaining
               /\ after.result[getName(arg)] = getDefault(arg)
               /\ after.errors = Append(before.errors, Thrown(arg, r.check))
          /\ (Reached(i) /\ ~r.ok /\ ~isOptional(arg)) =>
               /\ vInternal.threw = <<Thrown(arg, r.check)>>
               /\ vInternal.validated = i
               /\ vOutcome.type = "ParseError"
               /\ vOutcome.parseError = <<Thrown(arg, r.check)>>
               /\ vOutcome.result = <<>>

\* an optional first Argument threw, and the second Argument took the very
\* text the first was given
C18_Witness ==
  /\ Validated
  /\ Len(vArguments) = 2
  /\ isOptional(vArguments[1])
  /\ ~Argument_validate(vArguments[1], trim(vArgs)).ok
  /\ trim(vArgs) # <<>>
  /\ vOutcome.type = "ok"
  /\ vOutcome.result[getName(vArguments[1])] = getDefault(vArguments[1])
  /\ vOutcome.result[getName(vArguments[2])] = StrVal(trim(vArgs))

(***************************************************************************)
(* Claims about the order of the gates and about the execution phase.      *)
(***************************************************************************)
\* C19: the arguments are validated before the capabilities are checked:
\* an attempt whose predicates pass, whose argument text is invalid and which
\* lacks a required capability fails with ParseError or
\* TooManyArgumentsError, and no capability report or private notification
\* is sent.
C19_Original ==
  \A k \in 1..Len(tasks) :
    ( /\ Task(k).pc # "start"
      /\ PredicatesPass(k)
      /\ ~ArgumentsValidate(k)
      /\ MissingOf(k) # {} )
    => /\ Task(k).error \in {"ParseError", "TooManyArgumentsError"}
       /\ \A i \in 1..Len(Task(k).sends) :
            Task(k).sends[i].kind # "missingPermission"

\* the attempt reached the execution phase
ExecutionReached(k) == HandlerInvoked(k) \/ Task(k).pc = "exec"

HandlerFailed(k) ==
  \E h \in DOMAIN Task(k).handlers : Task(k).handlers[h] = "failed"

ExecutionPhase(k) ==
  ExecutionReached(k) =>
    /\ \A h \in DOMAIN Task(k).invoked : Task(k).invoked[h] = 1
    /\ \A h \in DOMAIN Task(k).handlers :
         Task(k).handlers[h] \in {"pending", "ok", "failed"}
    /\ (Task(k).error # "none") <=> HandlerFailed(k)
    /\ HandlerFailed(k) => Task(k).error = "Error"
    /\ (Task(k).pc = "done" /\ Task(k).error = "none") =>
         \A h \in DOMAIN Task(k).handlers : Task(k).handlers[h] = "ok"
    /\ Len(Task(k).sends) <= 1

\* a handler in flight stays in flight until it settles itself
InFlightUntilSettled ==
  \A k \in 1..Len(tasks) : \A h \in DOMAIN Task(k).handlers :
    (Task(k).handlers[h] = "pending" /\ Len(tasks') = Len(tasks)) =>
      \/ tasks'[k].handlers[h] = "pending"
      \/ HandlerSettles(k, h, TRUE)
      \/ HandlerSettles(k, h, FALSE)

\* C20: once an attempt reaches the execution phase every handler of the
\* Command has been invoked exactly once, whatever the other handlers do;
\* the dispatch fails exactly when some handler failed, and succeeds only
\* when all have resolved; a handler's failure leaves the handlers in flight
\* in flight.
C20_ExecutionPhase ==
  /\ [](\A k \in 1..Len(tasks) : ExecutionPhase(k))
  /\ [][InFlightUntilSettled]_vars

\* the first handler failed and the failure was answered while the second
\* handler, invoked once, went on and resolved
C20_Witness ==
  \E k \in 1..Len(tasks) :
    /\ Task(k).handlers = <<"failed", "ok">>
    /\ Task(k).invoked = <<1, 1>>
    /\ Task(k).error = "Error"
    /\ Task(k).pc = "done"
    /\ Task(k).sends = <<Message("reply", "unexpectedError", <<>>)>>

(***************************************************************************)
(* Claims about the replies that name the prefix (specification Spec).     *)
(***************************************************************************)
\* the replies of executeCommand's catch block that name the prefix
PrefixReplies(k) ==
  {i \in 1..Len(Task(k).sends) :
     Task(k).sends[i].kind \in {"noPermission", "invalidUsage"}}

\* C21: the prefix-help reply of messageHandler to a bot mention and the
\* error replies of executeCommand are composed after the prefix lookup has
\* completed: they carry the resolved prefix of the guild, not a pending
\* lookup.
C21_Original ==
  /\ \A i \in 1..Len(sent) :
       sent[i].kind = "prefixHelp" => sent[i].prefix = ResolvedPrefix
  /\ \A k \in 1..Len(tasks) :
       Task(k).entry = "executeCommand" =>
         \A i \in PrefixReplies(k) : Task(k).sends[i].prefix = ResolvedPrefix

(***************************************************************************)
(* Claims about the effects of getPrefix and setPrefix (SpecPrefix).       *)
(***************************************************************************)
\* the call that the step began
BegunCall == calls'[Len(calls')]

\* C22: without a reader, getPrefix(g) for a guild absent from the cache
\* returns the default prefix, calls neither reader nor writer and leaves
\* the cache as it was, g still absent.
C22_NoReader ==
  [][\A g \in Guilds :
       (GetPrefix(g) /\ ~getPrefixCallback /\ ~InCache(guildPrefixCache, g)) =>
         /\ BegunCall.pc = "done"
         /\ BegunCall.result = <<DefaultPrefix>>
         /\ BegunCall.reads = 0
         /\ BegunCall.written = <<>>
         /\ guildPrefixCache' = guildPrefixCache
         /\ ~InCache(guildPrefixCache', g)
         /\ store' = store]_vars

\* without a reader, a getPrefix on a guild absent from the cache returned
\* the default although the store held a prefix for the guild, and the guild
\* is still absent
C22_Witness ==
  /\ ~getPrefixCallback
  /\ \E i \in 1..Len(calls) :
       /\ calls[i].op = "getPrefix"
       /\ calls[i].pc = "done"
       /\ calls[i].result = <<DefaultPrefix>>
       /\ store[calls[i].guild] = <<"$">>
       /\ ~InCache(guildPrefixCache, calls[i].guild)
       /\ \A j \in 1..Len(calls) : calls[j].op = "getPrefix"

\* the other guilds' cache entries are as they were
OthersUnchanged(g) ==
  \A h \in Guilds \ {g} :
    /\ InCache(guildPrefixCache', h) <=> InCache(guildPrefixCache, h)
    /\ InCache(guildPrefixCache, h) => guildPrefixCache'[h] = guildPrefixCache[h]

\* setPrefix(g, v) up to its await
SetPrefixEffect ==
  \A g \in Guilds, v \in PrefixValues :
    SetPrefix(g, v) =>
      /\ InCache(guildPrefixCache', g)
      /\ guildPrefixCache'[g] = v
      /\ OthersUnchanged(g)
      /\ store' = store
      /\ IF setPrefixCallback
         THEN BegunCall.pc = "write" /\ BegunCall.written = << <<g, v>> >>
         ELSE BegunCall.pc = "done" /\ BegunCall.written = <<>>

\* the writer's answer to a setPrefix leaves the cache alone and calls the
\* writer no more
WriterSettlesEffect ==
  \A i \in 1..Len(calls) :
    (calls[i].op = "setPrefix" /\ (WriterResolves(i) \/ WriterRejects(i))) =>
      /\ guildPrefixCache' = guildPrefixCache
      /\ calls'[i].written = calls[i].written

\* C23: setPrefix(g, v) sets the cache entry of g to v before the writer is
\* called, with or without a writer and whether the write succeeds or not;
\* the entries of the other guilds are unchanged; the writer, if there is
\* one, is called exactly once, with (g, v).
C23_SetPrefix ==
  /\ [][SetPrefixEffect /\ WriterSettlesEffect]_vars
  /\ [](\A i \in 1..Len(calls) :
          calls[i].op = "setPrefix" =>
            calls[i].written =
              IF setPrefixCallback
              THEN << <<calls[i].guild, calls[i].value>> >> ELSE <<>>)

\* a setPrefix whose write was rejected left its value in the cache, beside
\* the entry of the other guild
C23_Witness ==
  \E i \in 1..Len(calls) :
    /\ calls[i].op = "setPrefix"
    /\ calls[i].pc = "threw"
    /\ InCache(guildPrefixCache, calls[i].guild)
    /\ guildPrefixCache[calls[i].guild] = calls[i].value
    /\ store[calls[i].guild] # calls[i].value
    /\ \E h \in Guilds \ {calls[i].guild} :
         InCache(guildPrefixCache, h) /\ guildPrefixCache[h] # calls[i].value

(***************************************************************************)
(* Claims about the empty remaining input (SpecValidate).                  *)
(***************************************************************************)
\* a required String or Rest Argument without min, whitelist or regex
Unconstrained(a) ==
  /\ a.type \in {"string", "rest"}
  /\ ~isOptional(a)
  /\ a.minlen = {}
  /\ a.whitelist = {}
  /\ a.regex = {}

\* C24: on empty remaining input a required String or Rest Argument without
\* min, whitelist or regex throws no ParseError and yields the empty string,
\* so that a Command of such Arguments validates on empty argument text; a
\* Number Argument throws ParseError on empty remaining input, which for a
\* required one fails the validation.
C24_EmptyInput ==
  Validated =>
    /\ \A i \in 1..Len(vArguments) :
         LET arg == vArguments[i]
             before == AfterArguments(i - 1)
             r == Argument_validate(arg, before.remaining)
         IN  (Reached(i) /\ before.remaining = <<>>) =>
               /\ Unconstrained(arg) =>
                    /\ r.ok
                    /\ r.val = StrVal(<<>>)
                    /\ AfterArguments(i).result[getName(arg)] = StrVal(<<>>)
               /\ arg.type = "number" => ~r.ok /\ r.check = "format"
               /\ (arg.type = "number" /\ ~isOptional(arg)) =>
                    /\ vOutcome.type = "ParseError"
                    /\ vOutcome.parseError = <<Thrown(arg, "format")>>
    /\ ( /\ trim(vArgs) = <<>>
         /\ \A i \in 1..Len(vArguments) : Unconstrained(vArguments[i]) ) =>
         /\ vOutcome.type = "ok"
         /\ \A i \in 1..Len(vArguments) :
              vOutcome.result[getName(vArguments[i])] = StrVal(<<>>)

\* a Command of a required String and a required Rest Argument, both
\* unconstrained, validated a blank argument text
C24_Witness ==
  /\ Validated
  /\ vArguments = <<TextArgument, RestArgument>>
  /\ vArgs # <<>>
  /\ trim(vArgs) = <<>>
  /\ vOutcome.type = "ok"
  /\ vOutcome.result[getName(TextArgument)] = StrVal(<<>>)
  /\ vOutcome.result[getName(RestArgument)] = StrVal(<<>>)

====
